---- MODULE Spec2Model ----
(***************************************************************************)
(* Mentor matching of the Underdog Devs DS API (app/model.py, app/api.py). *)
(* The state is the two collections of the record store the matchers read  *)
(* (Mentees, Mentors) and the outcome of the last request: its arguments,  *)
(* the candidate list handed to the ranking, the records picked and the    *)
(* value returned or the exception raised.                                 *)
(***************************************************************************)
EXTENDS Integers, Sequences, FiniteSets

VARIABLES Mentees, Mentors, op, n_matches, profile_id, candidates, ret, http

vars == <<Mentees, Mentors, op, n_matches, profile_id, candidates, ret, http>>

\* ------------------------------------------------------------------ bounds

\* Largest number of documents in the Mentors collection.
MaxMentors == 2

\* Largest number of documents in the Mentees collection.
MaxMentees == 2

\* Largest n_matches a request asks for.
MaxN == 2

\* ------------------------------------------------------------- input sets

\* Mentee documents a client may create.  A document is a function from
\* field names to values; a field a document lacks is outside its DOMAIN.
\* The two share a profile_id: the store keeps both when both are created.
MenteePool ==
    { [profile_id |-> 1, subject |-> "Web", experience_level |-> "Beginner",
       pair_programming |-> TRUE],
      [profile_id |-> 1, subject |-> "Data", experience_level |-> "Advanced",
       pair_programming |-> FALSE] }

\* Mentor documents a client may create: well-formed ones that differ in every
\* component of the ranking keys, two of them sharing a profile_id, one that
\* lacks a ranking field and one that lacks profile_id.
MentorPool ==
    { [profile_id |-> 1, subject |-> "Web", experience_level |-> "Beginner",
       pair_programming |-> TRUE, industry_knowledge |-> FALSE],
      [profile_id |-> 2, subject |-> "Web", experience_level |-> "Advanced",
       pair_programming |-> FALSE, industry_knowledge |-> TRUE],
      [profile_id |-> 3, subject |-> "Data", experience_level |-> "Beginner",
       pair_programming |-> TRUE, industry_knowledge |-> FALSE],
      [profile_id |-> 4, subject |-> "Web", experience_level |-> "Beginner",
       pair_programming |-> TRUE, industry_knowledge |-> TRUE],
      [profile_id |-> 2, subject |-> "Web", experience_level |-> "Beginner",
       pair_programming |-> FALSE, industry_knowledge |-> FALSE],
      [profile_id |-> 5, experience_level |-> "Beginner",
       pair_programming |-> TRUE, industry_knowledge |-> FALSE],
      [subject |-> "Web", experience_level |-> "Beginner",
       pair_programming |-> TRUE, industry_knowledge |-> FALSE] }

\* Mentee identifiers a request may carry; 2 never resolves.
ProfileIds == {1, 2}

\* n_matches of a ranking request (a positive integer) and of a sampling one.
RankCounts == 1..MaxN
SampleCounts == 0..MaxN

\* ----------------------------------------------------------- record store

\* None, the value first() gives when no document matches.
None == [none |-> TRUE]

Has(doc, field) == field \in DOMAIN doc

RECURSIVE FirstMatch(_, _, _)
FirstMatch(coll, pid, i) ==
    IF i > Len(coll) THEN None
    ELSE IF Has(coll[i], "profile_id") /\ coll[i].profile_id = pid THEN coll[i]
    ELSE FirstMatch(coll, pid, i + 1)

\* db.first(collection, {"profile_id": pid}): the first matching document or None.
first(coll, pid) == FirstMatch(coll, pid, 1)

\* db.read(collection): every document, in the collection's order.
read(coll) == coll

\* Sequences of distinct positions of a list of k elements.
InjSeqs(k) ==
    { s \in UNION { [1..m -> 1..k] : m \in 0..k } :
        \A i, j \in DOMAIN s : i # j => s[i] # s[j] }

Pick(coll, pos) == [i \in DOMAIN pos |-> coll[pos[i]]]

\* db.search(collection, text): the documents the text index matches, each
\* once, in relevance order.  Which documents match and how they are ordered
\* is the index's choice: any list of documents at distinct positions.
search(coll, text) == { Pick(coll, pos) : pos \in InjSeqs(Len(coll)) }

\* random.sample(population, k): the k-element lists of distinct positions of
\* a population of the given size.
sample(size, k) == { pos \in [1..k -> 1..size] : \A i, j \in 1..k : i # j => pos[i] # pos[j] }

\* ------------------------------------------------------------ Python core

Min(a, b) == IF a < b THEN a ELSE b
Max(a, b) == IF a > b THEN a ELSE b

\* seq[:n + 1]: a slice that keeps one element too many.
SliceOneMore(seq, n) == SubSeq(seq, 1, Min(n + 1, Len(seq)))

\* seq[:n], for n of either sign.
Slice(seq, n) ==
    IF n >= 0 THEN SubSeq(seq, 1, Min(n, Len(seq)))
    ELSE SubSeq(seq, 1, Max(0, Len(seq) + n))

\* a < b for tuples of booleans of one length: lexicographic, False < True.
RECURSIVE TupleLessFrom(_, _, _)
TupleLessFrom(a, b, i) ==
    IF i > Len(a) THEN FALSE
    ELSE IF a[i] = b[i] THEN TupleLessFrom(a, b, i + 1)
    ELSE ~a[i] /\ b[i]

TupleLess(a, b) == TupleLessFrom(a, b, 1)

\* An unstable step: position p goes before the first position whose key is
\* greater or equal, so before its equals.
RECURSIVE InsertBeforeEquals(_, _, _)
InsertBeforeEquals(order, p, keys) ==
    IF order = <<>> THEN <<p>>
    ELSE IF ~TupleLess(keys[Head(order)], keys[p]) THEN <<p>> \o order
    ELSE <<Head(order)>> \o InsertBeforeEquals(Tail(order), p, keys)

\* One step of the stable sort: position p goes before the first position of
\* the sorted prefix whose key is strictly greater, so after its equals.
RECURSIVE InsertStable(_, _, _)
InsertStable(order, p, keys) ==
    IF order = <<>> THEN <<p>>
    ELSE IF TupleLess(keys[p], keys[Head(order)]) THEN <<p>> \o order
    ELSE <<Head(order)>> \o InsertStable(Tail(order), p, keys)

RECURSIVE SortedFrom(_, _, _)
SortedFrom(order, p, keys) ==
    IF p > Len(keys) THEN order
    ELSE SortedFrom(InsertStable(order, p, keys), p + 1, keys)

\* sorted(list, key=...): the positions of the list in ascending key order,
\* equal keys in their original order.
sorted(keys) == SortedFrom(<<>>, 1, keys)

\* ---------------------------------------------------------------- matchers

\* The outcome of a call: the exception raised, or "ok" with the positions of
\* the candidate list that were picked and the list of ids returned.
Raise(exc) == [status |-> exc, picked |-> <<>>, value |-> <<>>]

\* [mentor["profile_id"] for mentor in results]
ReturnIds(cands, picked) ==
    IF \E i \in DOMAIN picked : ~Has(cands[picked[i]], "profile_id")
    THEN Raise("KeyError")
    ELSE [status |-> "ok", picked |-> picked,
          value |-> [i \in DOMAIN picked |-> cands[picked[i]].profile_id]]

\* What evaluating the key function over the whole list raises: mentee[...] on
\* None is a TypeError, a field absent from the mentee or a mentor a KeyError;
\* the key function is not called on an empty list.
KeyStatus(mentee, cands, menteeFields, mentorFields) ==
    IF cands = <<>> THEN "ok"
    ELSE IF mentee = None THEN "TypeError"
    ELSE IF \/ \E f \in menteeFields : ~Has(mentee, f)
            \/ \E i \in DOMAIN cands : \E f \in mentorFields : ~Has(cands[i], f)
    THEN "KeyError"
    ELSE "ok"

\* The Sort key with its two components exchanged.
sort_mentors_swapped(mentee, mentor) ==
    << mentee.experience_level # mentor.experience_level,
       mentee.subject # mentor.subject >>

\* MatcherSort.__call__.sort_mentors
sort_mentors(mentee, mentor) ==
    << mentee.subject # mentor.subject,
       mentee.experience_level # mentor.experience_level >>

\* The SortSearch key with industry knowledge ranking better, not worse.
sort_mentors_search_flipped(mentee, mentor) ==
    << mentee.subject # mentor.subject,
       mentee.experience_level # mentor.experience_level,
       mentee.pair_programming # mentor.pair_programming,
       ~mentor.industry_knowledge >>

\* MatcherSortSearch.__call__.sort_mentors
sort_mentors_search(mentee, mentor) ==
    << mentee.subject # mentor.subject,
       mentee.experience_level # mentor.experience_level,
       mentee.pair_programming # mentor.pair_programming,
       mentor.industry_knowledge >>

SortFields == {"subject", "experience_level"}
SortSearchFields == {"subject", "experience_level", "pair_programming"}

\* MatcherSort.__call__ on the mentee first() gave and the list read() gave.
MatcherSort(n, mentee, cands) ==
    LET ks == KeyStatus(mentee, cands, SortFields, SortFields)
    IN  IF ks # "ok" THEN Raise(ks)
        ELSE ReturnIds(cands,
               Slice(sorted([i \in DOMAIN cands |-> sort_mentors(mentee, cands[i])]), n))

\* mentee["subject"], the argument of search(): what evaluating it raises.
QueryStatus(mentee) ==
    IF mentee = None THEN "TypeError"
    ELSE IF ~Has(mentee, "subject") THEN "KeyError"
    ELSE "ok"

\* The lists db.search("Mentors", mentee["subject"]) may give; search is not
\* reached when its argument raises.
SearchHits(mentee, mentors) ==
    IF QueryStatus(mentee) # "ok" THEN {<<>>} ELSE search(mentors, mentee.subject)

\* MatcherSearch.__call__ on the mentee first() gave and the list search() gave.
MatcherSearch(n, mentee, hits) ==
    IF QueryStatus(mentee) # "ok" THEN Raise(QueryStatus(mentee))
    ELSE ReturnIds(hits, Slice([i \in DOMAIN hits |-> i], n))

\* MatcherSortSearch.__call__ on the mentee first() gave and the list search() gave.
MatcherSortSearch(n, mentee, hits) ==
    LET ks == KeyStatus(mentee, hits, SortSearchFields,
                        SortSearchFields \cup {"industry_knowledge"})
    IN  IF QueryStatus(mentee) # "ok" THEN Raise(QueryStatus(mentee))
        ELSE IF ks # "ok" THEN Raise(ks)
        ELSE ReturnIds(hits,
               Slice(sorted([i \in DOMAIN hits |->
                               sort_mentors_search(mentee, hits[i])]), n))

\* sample() raises ValueError unless 0 <= k <= len(population).
SampleFails(n, cands) == n < 0 \/ n > Len(cands)

\* The positions sample() may draw; it draws none when it raises.
SampleDraws(n, cands) == IF SampleFails(n, cands) THEN {<<>>} ELSE sample(Len(cands), n)

\* A sampler that draws with replacement: random.choices in place of sample.
MatcherRandomChoices(n, cands, pos) ==
    IF SampleFails(n, cands) THEN Raise("ValueError")
    ELSE ReturnIds(cands, [i \in DOMAIN pos |-> pos[1]])

\* MatcherRandom.__call__ on the list read() gave and the positions sampled.
MatcherRandom(n, cands, pos) ==
    IF SampleFails(n, cands) THEN Raise("ValueError")
    ELSE ReturnIds(cands, pos)

\* ------------------------------------------------------------ CRUD routes

\* The collection after delete(collection, {"profile_id": pid}): every
\* matching document is gone.
RECURSIVE Without(_, _)
Without(coll, pid) ==
    IF coll = <<>> THEN <<>>
    ELSE IF Has(Head(coll), "profile_id") /\ Head(coll).profile_id = pid
    THEN Without(Tail(coll), pid)
    ELSE <<Head(coll)>> \o Without(Tail(coll), pid)

\* update_data laid over a document: fields added or overwritten.
Overlay(doc, data) ==
    [f \in DOMAIN doc \cup DOMAIN data |-> IF f \in DOMAIN data THEN data[f] ELSE doc[f]]

\* A document matches a query when it carries every field of the query with
\* the query's value.
Matches(doc, query) == \A f \in DOMAIN query : Has(doc, f) /\ doc[f] = query[f]

\* The collection after update(collection, query, update_data): every
\* matching document is overlaid, in place.
Updated(coll, query, data) ==
    [i \in DOMAIN coll |->
        IF Matches(coll[i], query) THEN Overlay(coll[i], data) ELSE coll[i]]

PoolIds(pool) == { d.profile_id : d \in { x \in pool : Has(x, "profile_id") } }

\* The queries an update request may carry: by profile_id or by subject.
Queries(pool) ==
    { [profile_id |-> pid] : pid \in PoolIds(pool) \cup ProfileIds }
        \cup { [subject |-> "Web"] }

\* The update_data an update request may carry: the fields of a document of
\* the pool that has them all, profile_id included.
UpdateData(pool) == { d \in pool : \A e \in pool : DOMAIN e \subseteq DOMAIN d }

\* Requests are served one at a time: a request starts when the previous
\* one's response has been delivered.
Idle == op = "idle"

\* A request that is no match request leaves no match outcome behind.
NoCall ==
    /\ op' = "idle"
    /\ n_matches' = 0
    /\ profile_id' = 0
    /\ candidates' = <<>>
    /\ ret' = Raise("none")
    /\ http' = 0

\* POST /Mentees/create
CreateMentee ==
    /\ Idle
    /\ Len(Mentees) < MaxMentees
    /\ \E data \in MenteePool : Mentees' = Append(Mentees, data)
    /\ UNCHANGED Mentors
    /\ NoCall

\* POST /Mentors/create
CreateMentor ==
    /\ Idle
    /\ Len(Mentors) < MaxMentors
    /\ \E data \in MentorPool : Mentors' = Append(Mentors, data)
    /\ UNCHANGED Mentees
    /\ NoCall

\* POST /Mentees/update
UpdateMentee ==
    /\ Idle
    /\ \E query \in Queries(MenteePool), data \in UpdateData(MenteePool) :
          Mentees' = Updated(Mentees, query, data)
    /\ UNCHANGED Mentors
    /\ NoCall

\* POST /Mentors/update
UpdateMentor ==
    /\ Idle
    /\ \E query \in Queries(MentorPool), data \in UpdateData(MentorPool) :
          Mentors' = Updated(Mentors, query, data)
    /\ UNCHANGED Mentees
    /\ NoCall

\* DELETE /Mentees/delete/{profile_id}
DeleteMentee ==
    /\ Idle
    /\ \E pid \in ProfileIds : Mentees' = Without(Mentees, pid)
    /\ UNCHANGED Mentors
    /\ NoCall

\* DELETE /Mentors/delete/{profile_id}
DeleteMentor ==
    /\ Idle
    /\ \E pid \in PoolIds(MentorPool) : Mentors' = Without(Mentors, pid)
    /\ UNCHANGED Mentees
    /\ NoCall

\* ---------------------------------------------------------- match requests

Call(name, n, pid, cands, outcome) ==
    /\ op' = name
    /\ n_matches' = n
    /\ profile_id' = pid
    /\ candidates' = cands
    /\ ret' = outcome
    /\ http' = 0
    /\ UNCHANGED <<Mentees, Mentors>>

\* A Sort matcher that writes its ranking back: the collection is left in
\* ranked order.
CallSortInPlace ==
    /\ Idle
    /\ \E n \in RankCounts, pid \in ProfileIds :
        LET outcome == MatcherSort(n, first(Mentees, pid), read(Mentors))
            full == MatcherSort(Len(Mentors), first(Mentees, pid), read(Mentors))
        IN  /\ op' = "Sort"
            /\ n_matches' = n
            /\ profile_id' = pid
            /\ candidates' = read(Mentors)
            /\ ret' = outcome
            /\ http' = 0
            /\ Mentors' = IF full.status = "ok" THEN Pick(Mentors, full.picked) ELSE Mentors
            /\ UNCHANGED Mentees

\* MatcherSort()(n_matches, profile_id)
CallSort ==
    /\ Idle
    /\ \E n \in RankCounts, pid \in ProfileIds :
        Call("Sort", n, pid, read(Mentors),
             MatcherSort(n, first(Mentees, pid), read(Mentors)))

\* MatcherSearch()(n_matches, profile_id)
CallSearch ==
    /\ Idle
    /\ \E n \in RankCounts, pid \in ProfileIds :
        \E hits \in SearchHits(first(Mentees, pid), Mentors) :
            Call("Search", n, pid, hits, MatcherSearch(n, first(Mentees, pid), hits))

\* MatcherRandom()(n_matches, profile_id)
CallRandom ==
    /\ Idle
    /\ \E n \in SampleCounts, pid \in ProfileIds :
        \E pos \in SampleDraws(n, read(Mentors)) :
            Call("Random", n, pid, read(Mentors), MatcherRandom(n, read(Mentors), pos))

\* The response code of a route: the catch-all handler turns any exception
\* that is no HTTPException into the 500 "server error" response.
all_exception_handler(outcome) == IF outcome.status = "ok" THEN 200 ELSE 500

\* A route that ranks the whole collection, as MatcherSort does, whatever the
\* search gave.
match_full_scan ==
    /\ Idle
    /\ \E n \in RankCounts, pid \in ProfileIds :
        \E hits \in SearchHits(first(Mentees, pid), Mentors) :
            LET outcome == MatcherSortSearch(n, first(Mentees, pid), read(Mentors))
            IN  /\ op' = "SortSearch"
                /\ n_matches' = n
                /\ profile_id' = pid
                /\ candidates' = hits
                /\ ret' = outcome
                /\ http' = all_exception_handler(outcome)
                /\ UNCHANGED <<Mentees, Mentors>>

\* POST /match/{profile_id}, served by API.matcher = MatcherSortSearch()
match ==
    /\ Idle
    /\ \E n \in RankCounts, pid \in ProfileIds :
        \E hits \in SearchHits(first(Mentees, pid), Mentors) :
            LET outcome == MatcherSortSearch(n, first(Mentees, pid), hits)
            IN  /\ op' = "SortSearch"
                /\ n_matches' = n
                /\ profile_id' = pid
                /\ candidates' = hits
                /\ ret' = outcome
                /\ http' = all_exception_handler(outcome)
                /\ UNCHANGED <<Mentees, Mentors>>

\* The caller has the outcome of the match request; the call is over.
Return ==
    /\ ~Idle
    /\ op' = "idle"
    /\ n_matches' = 0
    /\ profile_id' = 0
    /\ candidates' = <<>>
    /\ ret' = Raise("none")
    /\ http' = 0
    /\ UNCHANGED <<Mentees, Mentors>>

Init ==
    /\ Mentees = <<>>
    /\ Mentors = <<>>
    /\ op = "idle"
    /\ n_matches = 0
    /\ profile_id = 0
    /\ candidates = <<>>
    /\ ret = Raise("none")
    /\ http = 0

Next ==
    \/ CreateMentee
    \/ CreateMentor
    \/ UpdateMentee
    \/ UpdateMentor
    \/ DeleteMentee
    \/ DeleteMentor
    \/ CallSort
    \/ CallSearch
    \/ CallRandom
    \/ match
    \/ Return

Spec == Init /\ [][Next]_vars

\* ------------------------------------------------------- reading an outcome

\* The mentee record the last request's profile_id resolves to, or None.
TheMentee == first(Mentees, profile_id)

Returned == ret.status = "ok"

\* Position p of the candidate list is in the output; p is output before q.
Picked(p) == \E i \in DOMAIN ret.picked : ret.picked[i] = p
Before(p, q) ==
    \E i, j \in DOMAIN ret.picked : i < j /\ ret.picked[i] = p /\ ret.picked[j] = q

\* The output lists distinct positions of the candidate list and their ids.
IdsOfPicked ==
    /\ \A i, j \in DOMAIN ret.picked : i # j => ret.picked[i] # ret.picked[j]
    /\ DOMAIN ret.value = DOMAIN ret.picked
    /\ \A i \in DOMAIN ret.picked :
          /\ ret.picked[i] \in DOMAIN candidates
          /\ ret.value[i] = candidates[ret.picked[i]].profile_id

\* The ranking keys as numbers: a mismatch counts 1, an earlier component
\* outweighs all later ones together.
Mis(f, p) == IF TheMentee[f] # candidates[p][f] THEN 1 ELSE 0
SortRank(p) == 2 * Mis("subject", p) + Mis("experience_level", p)
SortSearchRank(p) ==
    8 * Mis("subject", p) + 4 * Mis("experience_level", p)
      + 2 * Mis("pair_programming", p)
      + (IF candidates[p].industry_knowledge THEN 1 ELSE 0)
RankOf(p) == IF op = "Sort" THEN SortRank(p) ELSE SortSearchRank(p)

\* ------------------------------------------------------------------ claims

\* C1: when Sort, Search or SortSearch returns, the list has exactly
\* min(n_matches, number of candidates) ids, each the id of a different
\* candidate; with n_matches >= the number of candidates every candidate is
\* in it, and with no candidate it is empty.  Sort's candidates are all mentors.
C1_ResultLength ==
    (op \in {"Sort", "Search", "SortSearch"} /\ Returned) =>
        /\ Len(ret.value) = Min(n_matches, Len(candidates))
        /\ IdsOfPicked
        /\ n_matches >= Len(candidates) => \A p \in DOMAIN candidates : Picked(p)
        /\ candidates = <<>> => ret.value = <<>>
        /\ op = "Sort" => candidates = Mentors

\* C1 witness: SortSearch cut two candidates down to one.
C1_Witness ==
    /\ op = "SortSearch" /\ Returned
    /\ Len(candidates) = 2 /\ n_matches = 1 /\ Len(ret.value) = 1

\* C2: Sort returns the first min(n_matches, count) of all mentors in ascending
\* order of (subject mismatch, experience-level mismatch): whenever a mentor
\* with a greater key is returned, every mentor with a smaller key is returned
\* too, and earlier.
C2_SortRanking ==
    (op = "Sort" /\ Returned /\ candidates # <<>>) =>
        /\ candidates = Mentors
        /\ Len(ret.picked) = Min(n_matches, Len(candidates))
        /\ IdsOfPicked
        /\ \A p, q \in DOMAIN candidates :
              (SortRank(p) < SortRank(q) /\ Picked(q)) => (Picked(p) /\ Before(p, q))

\* C2 witness: mentee Web/Beginner, mentors read as 2 Web/Advanced,
\* 1 Web/Beginner, n_matches = 1: the result is [1], the mentor matching both
\* fields, and the subject-only match read first is cut off.
C2_Witness ==
    /\ op = "Sort" /\ Returned /\ n_matches = 1
    /\ TheMentee # None /\ TheMentee.subject = "Web"
    /\ TheMentee.experience_level = "Beginner"
    /\ Len(candidates) = 2
    /\ Has(candidates[1], "profile_id") /\ candidates[1].profile_id = 2
    /\ candidates[1].experience_level = "Advanced"
    /\ ret.value = <<1>>

\* C3: a match request whose profile_id resolves to no mentee is answered
\* with 404, not with the catch-all handler's 500.
C3_NotFoundIs404 ==
    (op = "SortSearch" /\ TheMentee = None) => http = 404

\* C4: whatever the matcher, a call whose profile_id resolves to no mentee
\* fails and returns no list.
C4_NotFoundFails ==
    (op \in {"Sort", "Search", "SortSearch", "Random"} /\ TheMentee = None) => ~Returned

\* Every candidate carries a profile_id.
AllCarryId == \A p \in DOMAIN candidates : Has(candidates[p], "profile_id")

\* C5: Random samples all mentors.  With n_matches > population it raises
\* ValueError and returns nothing; otherwise it returns exactly n_matches ids,
\* those of n_matches different mentor records (the one other outcome is the
\* KeyError of a mentor document that carries no profile_id).
C5_RandomSample ==
    op = "Random" =>
        /\ candidates = Mentors
        /\ n_matches > Len(candidates) => (ret.status = "ValueError" /\ ret.value = <<>>)
        /\ n_matches <= Len(candidates) =>
              \/ Returned /\ Len(ret.value) = n_matches /\ IdsOfPicked
              \/ ret.status = "KeyError" /\ ~AllCarryId

\* C5 witness: both of two mentors sampled, the later one first.
C5_Witness ==
    /\ op = "Random" /\ Returned
    /\ n_matches = 2 /\ Len(candidates) = 2
    /\ ret.picked[1] > ret.picked[2]

\* The fields a matcher's ranking and its result read from a mentor.
FieldsRead ==
    IF op = "Sort" THEN {"profile_id", "subject", "experience_level"}
    ELSE {"profile_id", "subject", "experience_level", "pair_programming",
          "industry_knowledge"}

\* C6: Sort and SortSearch fail, returning nothing, whenever any candidate
\* lacks a ranking field or profile_id, also one that truncation would drop.
C6_MalformedFails ==
    (/\ op \in {"Sort", "SortSearch"}
     /\ \E p \in DOMAIN candidates : \E f \in FieldsRead : ~Has(candidates[p], f))
        => ~Returned

\* C7: Sort and SortSearch keep candidates with equal ranking keys in their
\* candidate-list order: of two such candidates the later one is returned only
\* if the earlier one is, and after it.
C7_StableOrder ==
    (op \in {"Sort", "SortSearch"} /\ Returned /\ candidates # <<>>) =>
        \A p, q \in DOMAIN candidates :
            (p < q /\ RankOf(p) = RankOf(q) /\ Picked(q)) => (Picked(p) /\ Before(p, q))

\* C7 witness: Sort returned two different mentors of equal key, under
\* different ids, in the order it read them.
C7_Witness ==
    /\ op = "Sort" /\ Returned /\ candidates # <<>>
    /\ \E p, q \in DOMAIN candidates :
          /\ p < q /\ SortRank(p) = SortRank(q) /\ Picked(p) /\ Picked(q)
          /\ candidates[p].profile_id # candidates[q].profile_id

\* C8: every id SortSearch returns is the profile_id of a record of the list
\* search() gave for the mentee's subject.
C8_WithinSearch ==
    (op = "SortSearch" /\ Returned) =>
        /\ candidates \in SearchHits(TheMentee, Mentors)
        /\ \A i \in DOMAIN ret.value :
              \E p \in DOMAIN candidates :
                  Has(candidates[p], "profile_id")
                      /\ candidates[p].profile_id = ret.value[i]

\* A mentor document that matches the mentee on every ranking field.
FullMatch(doc) ==
    /\ \A f \in SortSearchFields : Has(doc, f) /\ doc[f] = TheMentee[f]
    /\ Has(doc, "industry_knowledge") /\ ~doc.industry_knowledge

\* C8 witness: SortSearch returned ids while a fully matching mentor, left
\* out by search(), stayed out of the result.
C8_Witness ==
    /\ op = "SortSearch" /\ Returned /\ ret.value # <<>>
    /\ \E m \in DOMAIN Mentors :
          /\ FullMatch(Mentors[m])
          /\ \A p \in DOMAIN candidates : candidates[p] # Mentors[m]

\* C9: a step that is a matcher invocation leaves Mentees and Mentors as they
\* were, whether it returns or raises.
C9_MatchersReadOnly ==
    [][op' # "idle" => (Mentees' = Mentees /\ Mentors' = Mentors)]_vars

\* C9 witness: Sort ranked the mentors in another order than the collection's,
\* which it read in full.
C9_Witness ==
    /\ op = "Sort" /\ Returned
    /\ candidates = Mentors /\ Len(ret.picked) > 1 /\ ret.picked[1] # 1

\* C10: SortSearch returns the first min(n_matches, count) search candidates
\* in ascending order of (subject mismatch, experience-level mismatch,
\* pair-programming mismatch, industry_knowledge): whenever a candidate with a
\* greater key is returned, every candidate with a smaller key is returned
\* too, and earlier.
C10_SortSearchRanking ==
    (op = "SortSearch" /\ Returned /\ candidates # <<>>) =>
        /\ Len(ret.picked) = Min(n_matches, Len(candidates))
        /\ IdsOfPicked
        /\ \A p, q \in DOMAIN candidates :
              (SortSearchRank(p) < SortSearchRank(q) /\ Picked(q))
                  => (Picked(p) /\ Before(p, q))

\* C10 witness: two candidates equal on the first three components; the one
\* without industry knowledge, later in the search result, is returned first.
C10_Witness ==
    /\ op = "SortSearch" /\ Returned
    /\ \E i, j \in DOMAIN ret.picked :
          /\ i < j /\ ret.picked[i] > ret.picked[j]
          /\ ~candidates[ret.picked[i]].industry_knowledge
          /\ SortSearchRank(ret.picked[j]) = SortSearchRank(ret.picked[i]) + 1

====
